---- MODULE Spec2Model ----
(***************************************************************************)
(* Model of the contribution-selection core of the gradient marketplace:   *)
(* src/entry/gradient_market/skymask/classify.py (Kmeans, Classify_kmeans, *)
(* GMM, GMM2), optimal_k_gap of                                            *)
(* src/marketplace/utils/gradient_market_utils/clustering.py,              *)
(* _calculate_target_counts of                                             *)
(* src/marketplace/utils/gradient_market_utils/text_data_processor.py and  *)
(* FederatedEarlyStopper of src/entry/gradient_market/backdoor_attack.py.  *)
(*                                                                         *)
(* Conventions.                                                            *)
(*  - Rows and centroids are numbered from 1 (the code numbers them from   *)
(*    0); cluster ids and labels keep the code's values 0 and 1.           *)
(*  - Floating point is modelled as exact rational arithmetic.  A centroid *)
(*    is the pair [s |-> sum of its rows, n |-> number of rows] and stands *)
(*    for the point s/n; n = 0 stands for NaN, the value numpy's mean of   *)
(*    an empty selection gives.                                            *)
(*  - The matrix entry NaN stands for any non-finite value.                *)
(*  - sklearn's PCA and GaussianMixture are library code: PCA is modelled  *)
(*    by its validation and by what it does to a matrix of 2 columns, the  *)
(*    mixture fit by a choice over every outcome it can give.              *)
(*  - The two global generators (of random and of numpy.random) are state: *)
(*    their seed is unknown, so a draw can give anything, and what is      *)
(*    drawn at a known position is remembered.                             *)
(***************************************************************************)
EXTENDS Integers, Sequences, FiniteSets, TLC

\* Bounds of the model.
MaxN == 3
MaxCoord == 1
HeavyRows == 6
MaxArg == 2
MaxDraws == 3
MaxK == 3
MaxB == 2
MaxGap == 1
MaxClasses == 3
MaxWeight == 2
MaxTotal == 4
MaxPatience == 2
MaxValue == 2
MaxUpdates == 4

\* Program constants.
k == 2
max_iterations == 2000
VarepsilonInv == 100000
resetTimes == 10
n_components == 2
BalanceThreshold == 4

NaN == 0 - 1

\* Column counts of the inputs.  With 2 columns PCA(n_components=2) is a
\* centring followed by a rotation, which the model can follow exactly.
Dims == {1, 2}

\* Entries of the matrices given to Classify_kmeans.
Vals == (0..MaxCoord) \cup {NaN}

\* Entries of the matrices given to GMM and GMM2: these two read of an entry
\* only whether it is finite and (GMM2, one-element array) whether it is zero.
MixVals == {0, 1, NaN}

Matrices(vals) ==
    UNION {[1..n -> [1..d -> vals]] : n \in 0..MaxN, d \in Dims}

\* Matrices of HeavyRows rows, every row one of two points of the unit square:
\* the inputs on which one cluster outweighs the other by BalanceThreshold
\* rows or more, so that Kmeans.predict starts again.
TwoPointMatrices ==
    {[r \in 1..HeavyRows |-> IF r \in S THEN p ELSE q] :
        S \in SUBSET (1..HeavyRows),
        p \in [1..2 -> 0..1], q \in [1..2 -> 0..1]}

\* Matrices of HeavyRows rows, every row one of the three points (0,0), (1,0)
\* and (0,3), in this order: on some of them a row changes its cluster after
\* the first iteration, and on some the sizes of the two final clusters
\* depend on the rows drawn as initial centroids.
ThreePointMatrices ==
    {[r \in 1..HeavyRows |->
        IF r <= a THEN <<0, 0>> ELSE IF r <= a + b THEN <<1, 0>> ELSE <<0, 3>>] :
        a \in 0..HeavyRows, b \in 0..HeavyRows}

\* The entries of a matrix are whole multiples of a unit: 1, or a tenth of
\* varepsilon, the scale at which a centroid can move by less than varepsilon
\* without standing still.  No step of the code reads the unit.
UnitInvs == {1, 10 * VarepsilonInv}

\* The matrices that are given in either unit: 2 columns, entries 0 and 1.
FineMatrices == UNION {[1..n -> [1..2 -> 0..1]] : n \in 2..MaxN}

ArgTypes == {"list_of_ndarray", "list_of_list", "list_of_float", "ndarray"}

Min(a, b) == IF a <= b THEN a ELSE b

Abs(a) == IF a < 0 THEN 0 - a ELSE a

Rows(M) == Len(M)

Cols(M) == IF Len(M) = 0 THEN 0 ELSE Len(M[1])

HasNaN(M) == \E r \in DOMAIN M : \E c \in DOMAIN M[r] : M[r][c] = NaN

RECURSIVE SumOver(_, _, _)
\* Sum of column c of M over the rows in S.
SumOver(M, S, c) ==
    IF S = {} THEN 0
    ELSE LET r == CHOOSE x \in S : TRUE
         IN  M[r][c] + SumOver(M, S \ {r}, c)

Count(labels, v) == Cardinality({r \in DOMAIN labels : labels[r] = v})

Const(n, v) == [r \in 1..n |-> v]

(***************************************************************************)
(* sklearn.decomposition.PCA(n_components=nc).fit_transform(M)             *)
(***************************************************************************)
\* The input validation: at least one row and one column, every entry
\* finite, and nc <= min(rows, columns); otherwise ValueError.
PCA_raises(M, nc) ==
    \/ Rows(M) < 1
    \/ Cols(M) < 1
    \/ HasNaN(M)
    \/ nc > Min(Rows(M), Cols(M))

\* PCA_fit_transform without the centring: the rows are only projected.
PCA_fit_transform_uncentred(M) ==
    [r \in 1..Rows(M) |-> [c \in 1..n_components |-> Rows(M) * M[r][c]]]

\* The transform of a matrix of 2 columns: the rows minus the column means,
\* then a rotation onto the principal axes.  Entries are kept multiplied by
\* the row count so that they stay integers.  The rotation is left out:
\* everything read of the result below (equality of rows, squared distances,
\* norms, means) is unchanged by it.
PCA_fit_transform(M) ==
    [r \in 1..Rows(M) |->
        [c \in 1..n_components |->
            Rows(M) * M[r][c] - SumOver(M, 1..Rows(M), c)]]

(***************************************************************************)
(* class Kmeans                                                            *)
(***************************************************************************)
NormSq(v) == v[1] * v[1] + v[2] * v[2]

IsNaNCentroid(c) == c.n = 0

\* np.power(sample - centroid, 2).sum() as the fraction num/den.
euclidean_distance(sample, c) ==
    [num |-> NormSq([d \in 1..2 |-> c.n * sample[d] - c.s[d]]),
     den |-> c.n * c.n]

\* closest_centroid keeping the last of two equal minima.
closest_centroid_last(sample, cs) ==
    IF IsNaNCentroid(cs[1]) THEN 1
    ELSE IF IsNaNCentroid(cs[2]) THEN 2
    ELSE LET d1 == euclidean_distance(sample, cs[1])
             d2 == euclidean_distance(sample, cs[2])
         IN  IF d1.num * d2.den < d2.num * d1.den THEN 1 ELSE 2

\* np.argmin over the two distances: the first minimum, and a NaN distance
\* counts as the minimum.
closest_centroid(sample, cs) ==
    IF IsNaNCentroid(cs[1]) THEN 1
    ELSE IF IsNaNCentroid(cs[2]) THEN 2
    ELSE LET d1 == euclidean_distance(sample, cs[1])
             d2 == euclidean_distance(sample, cs[2])
         IN  IF d1.num * d2.den <= d2.num * d1.den THEN 1 ELSE 2

create_clusters(cs, M) ==
    [j \in 1..k |-> {r \in 1..Rows(M) : closest_centroid(M[r], cs) = j}]

\* np.mean(X[cluster], axis=0); of an empty cluster it is NaN (n = 0).
update_centroids(cl, M) ==
    [j \in 1..k |->
        [s |-> [d \in 1..2 |-> SumOver(M, cl[j], d)],
         n |-> Cardinality(cl[j])]]

\* Balanced accepting a difference of BalanceThreshold as well.
Balanced_leq(cl) ==
    Abs(Cardinality(cl[1]) - Cardinality(cl[2])) <= BalanceThreshold

\* Line 95: abs(len(clusters[0]) - len(clusters[1])) < 4.
Balanced(cl) ==
    Abs(Cardinality(cl[1]) - Cardinality(cl[2])) < BalanceThreshold

\* The test of the while loop without its re-draw: no pair is drawn again.
SameRows_never(M, a, b) == FALSE

\* all(X[idx[0]] == X[idx[1]]): the two drawn rows are identical.
SameRows(M, a, b) == \A d \in 1..2 : M[a][d] = M[b][d]

\* init_centroids copying the first drawn row into both centroids.
init_centroids_first(M, pick) ==
    [j \in 1..k |-> [s |-> M[pick[1]], n |-> 1]]

\* Lines 27-29: centroids[i] = X[idx[i]].
init_centroids(M, pick) ==
    [j \in 1..k |-> [s |-> M[pick[j]], n |-> 1]]

\* One entry of centroids - former_centroids is nonzero (NaN is nonzero).
EntryDiffers(a, b) ==
    \/ IsNaNCentroid(a)
    \/ IsNaNCentroid(b)
    \/ \E d \in 1..2 : a.s[d] * b.n # b.s[d] * a.n

\* diff.any(), a bool, read as the number it is compared as.
DiffAny(cs, former) ==
    IF \E j \in 1..k : EntryDiffers(cs[j], former[j]) THEN 1 ELSE 0

\* diff.any() < self.varepsilon, with varepsilon the fraction num/den.
Converged(cs, former, varepsilon) ==
    DiffAny(cs, former) * varepsilon.den < varepsilon.num

\* dist_list: the L2 norm of each centroid, compared through its square.
NormLess(a, b) ==
    /\ ~IsNaNCentroid(a)
    /\ ~IsNaNCentroid(b)
    /\ NormSq(a.s) * b.n * b.n < NormSq(b.s) * a.n * a.n

NormEq(a, b) ==
    /\ ~IsNaNCentroid(a)
    /\ ~IsNaNCentroid(b)
    /\ NormSq(a.s) * b.n * b.n = NormSq(b.s) * a.n * a.n

\* SortedCopy without the sort.
SortedCopy_unsorted(cs) == cs

\* copy = dist_list.copy(); copy.sort(): the two entries change places only
\* when the second compares less than the first.
SortedCopy(cs) == IF NormLess(cs[2], cs[1]) THEN <<cs[2], cs[1]>> ELSE cs

\* CanonicalId counting the positions of the sorted copy from 1.
CanonicalId_fromOne(cs, j) ==
    LET copy == SortedCopy(cs)
    IN  IF NormEq(cs[j], copy[2]) THEN 2
        ELSE 1

\* idx[j]: the last position i of the sorted copy with dist_list[j] == copy[i],
\* and 0 when there is none.
CanonicalId(cs, j) ==
    LET copy == SortedCopy(cs)
    IN  IF NormEq(cs[j], copy[2]) THEN 1
        ELSE 0

get_cluster_labels_new(cs, cl, M) ==
    [r \in 1..Rows(M) |->
        IF r \in cl[2] THEN CanonicalId(cs, 2)
        ELSE IF r \in cl[1] THEN CanonicalId(cs, 1)
        ELSE 0]

Flip(labels) == [r \in DOMAIN labels |-> (labels[r] + 1) % 2]

\* MajorityRule with the comparison turned round: the majority is flipped.
MajorityRule_reversed(labels) ==
    LET benign == Count(labels, 1)
        mali   == Cardinality(DOMAIN labels) - benign
    IN  IF benign > mali THEN Flip(labels) ELSE labels

\* The counting loop and the flip of Classify_kmeans and of GMM.
MajorityRule(labels) ==
    LET benign == Count(labels, 1)
        mali   == Cardinality(DOMAIN labels) - benign
    IN  IF benign < mali THEN Flip(labels) ELSE labels

\* MajorityRuleVec flipping on a tie as well.
MajorityRuleVec_tie(labels) ==
    LET benign == Count(labels, 1)
        mali   == Count(labels, 0)
    IN  IF mali >= benign THEN [r \in DOMAIN labels |-> 1 - labels[r]]
        ELSE labels

\* The vectorised count and flip of GMM2 (np.sum(y_pred == 1), 1 - y_pred).
MajorityRuleVec(labels) ==
    LET benign == Count(labels, 1)
        mali   == Count(labels, 0)
    IN  IF mali > benign THEN [r \in DOMAIN labels |-> 1 - labels[r]]
        ELSE labels

(***************************************************************************)
(* sklearn.mixture.GaussianMixture(n_components=nc).fit(M).predict(M)      *)
(***************************************************************************)
FitFailed == [ok |-> FALSE, y |-> <<>>]

\* Every outcome of the fit: a ValueError when the data is not finite or has
\* fewer rows than components, and otherwise either a numerical failure or
\* one component id per row.
FitOutcomes(M, nc) ==
    IF HasNaN(M) \/ Rows(M) < nc \/ Cols(M) < 1 THEN {FitFailed}
    ELSE {FitFailed} \cup
         {[ok |-> TRUE, y |-> y] : y \in [1..Rows(M) -> 0..(nc - 1)]}

(***************************************************************************)
(* State                                                                   *)
(***************************************************************************)
VARIABLES
    entry,              \* the function called
    argType,            \* the Python type of its argument
    X,                  \* the feature matrix given to it, in units
    unitInv,            \* the unit of its entries is 1/unitInv
    kmeans,             \* the Kmeans object: the fields __init__ stores
    pc,                 \* the position of the call
    newX,               \* the matrix after the reduction step
    centroids,          \* Kmeans.predict: centroids
    clusters,           \* Kmeans.predict: clusters
    former_centroids,   \* Kmeans.predict: former_centroids
    times,              \* Kmeans.predict: times
    iter,               \* Kmeans.predict: i of the for loop
    resultGood,         \* Kmeans.predict: resultGood
    idx,                \* init_random_centroids: the accepted idx
    y_pred,             \* the labels before the majority rule
    n_components_gmm,   \* GMM2: n_components_gmm (0: not set)
    usedPCA,            \* GMM2: the PCA branch was taken
    fit,                \* "none", "ok" or "failed": the mixture fit
    result,             \* what the call gave back
    round,              \* the number of the call, from 1
    prev,               \* an earlier call, as a later one remembers it
    rng,                \* calls of random.sample made on the generator of
                        \* the module random since the process started,
                        \* counted up to MaxDraws
    log,                \* the pairs the generator gave, by position, in
                        \* the process that a second one is compared with
    alt,                \* the matrix the second process starts with
    np_rng,             \* the state of the global generator of numpy.random
    memo,               \* the statistics computed so far, by reference data
    okg,                \* optimal_k_gap: its arguments and locals
    first,              \* optimal_k_gap: its first call, as the second
                        \* one remembers it
    tc,                 \* _calculate_target_counts: its arguments and locals
    stopper,            \* the FederatedEarlyStopper object
    updates             \* the calls of update made on it: value and return

vars == <<entry, argType, X, unitInv, kmeans, pc, newX, centroids, clusters, former_centroids,
          times, iter, resultGood, idx, y_pred, n_components_gmm, usedPCA, fit, result,
          round, prev, rng, log, alt, np_rng, memo, okg, first, tc, stopper,
          updates>>

kmeansVars == <<centroids, clusters, former_centroids, times, iter,
                resultGood, idx>>

mixVars == <<n_components_gmm, usedPCA, fit>>

gapVars == <<np_rng, memo, okg, first>>

toolVars == <<tc, stopper, updates>>

callVars ==
    <<entry, argType, X, unitInv, kmeans, round, prev, alt, gapVars, toolVars>>

rngVars == <<rng, log>>

NoResult == [status |-> "none", labels |-> <<>>, exc |-> "none"]

\* The call ended with an exception of class e.
RaisedAs(e) == [status |-> "raised", labels |-> <<>>, exc |-> e]

\* The ValueError of sklearn's validation, of the mixture fit and of the
\* truth value of an array.
Raised == RaisedAs("ValueError")

Returned(labels) == [status |-> "returned", labels |-> labels, exc |-> "none"]

\* Kmeans.__init__, lines 13-17: the four arguments are stored as given.
\* varepsilon is the fraction num/den.
Kmeans_init(k_, max_iterations_, varepsilon_, resetTimes_) ==
    [k |-> k_, max_iterations |-> max_iterations_,
     varepsilon |-> varepsilon_, resetTimes |-> resetTimes_]

\* Kmeans(k=2), line 104: the defaults of the other three arguments.
Kmeans_default ==
    Kmeans_init(k, max_iterations, [num |-> 1, den |-> VarepsilonInv],
                resetTimes)

NoCentroids == [j \in 1..k |-> [s |-> <<0, 0>>, n |-> 0]]

NoClusters == [j \in 1..k |-> {}]

NoPrev == [labels |-> <<>>, idx |-> <<0, 0>>, perm |-> <<>>]

\* The state of numpy's global generator: the last seed it was given and the
\* number of draws made since.
NpState(seed, pos) == [seed |-> seed, pos |-> pos]

NoOkg ==
    [k_max |-> 0, B |-> 0, random_state |-> 0, np_before |-> NpState(0, 0),
     refs |-> <<>>, gap |-> <<>>, sdk |-> <<>>, optimal_k |-> 0]

NoFirst == [optimal_k |-> 0, np_before |-> NpState(0, 0)]

\* optimal_k_gap is not called.
NoGap ==
    /\ np_rng = NpState(0, 0)
    /\ memo = {}
    /\ okg = NoOkg
    /\ first = NoFirst

NoTc ==
    [total_samples |-> 0, proportions |-> [den |-> 1, w |-> <<>>],
     valid_proportions |-> [den |-> 1, w |-> <<>>], counts |-> <<>>,
     diff |-> 0, sorted_classes |-> <<>>, idx |-> 0, loops |-> 0]

NoStopper ==
    [patience |-> 0, min_delta |-> 0, monitor |-> "loss", best_score |-> <<>>,
     counter |-> 0]

\* _calculate_target_counts is not called and no stopper is built.
NoTools ==
    /\ tc = NoTc
    /\ stopper = NoStopper
    /\ updates = <<>>

\* The locals of a call that has not started.
FreshCall ==
    /\ pc = "start"
    /\ newX = <<>>
    /\ centroids = NoCentroids
    /\ clusters = NoClusters
    /\ former_centroids = NoCentroids
    /\ times = 0
    /\ iter = 0
    /\ resultGood = FALSE
    /\ idx = <<0, 0>>
    /\ y_pred = <<>>
    /\ n_components_gmm = 0
    /\ usedPCA = FALSE
    /\ fit = "none"
    /\ result = NoResult

\* A process that has just started: nothing was drawn from the generator of
\* the module random, no call was made, and no run is to be compared with.
FreshProcess ==
    /\ rng = 0
    /\ log = <<>>
    /\ alt = <<>>
    /\ round = 1
    /\ prev = NoPrev
    /\ NoGap
    /\ NoTools

\* The argument of a call: Classify_kmeans and GMM hand it to sklearn, which
\* accepts lists and arrays alike; GMM2 reads its Python type.
Init ==
    /\ entry \in {"Classify_kmeans", "GMM", "GMM2"}
    /\ argType \in ArgTypes
    /\ entry # "GMM2" => argType = "list_of_ndarray"
    /\ X \in IF entry = "Classify_kmeans"
             THEN Matrices(Vals) \cup TwoPointMatrices
             ELSE Matrices(MixVals)
    /\ argType = "list_of_float" => Cols(X) <= 1
    /\ unitInv \in IF entry = "Classify_kmeans" /\ X \in FineMatrices
                    THEN UnitInvs ELSE {1}
    /\ kmeans = Kmeans_default
    /\ FreshCall
    /\ FreshProcess

(***************************************************************************)
(* The generator of the module random.  Its seed is not known, so a call   *)
(* of random.sample can give any pair; what is known is that a process     *)
(* started again with the same seed is given, at the same position and for *)
(* the same number of rows, the same pair.                                 *)
(***************************************************************************)
\* Calls 1 and 2 are made by one process, calls 3 and 4 by a second process
\* started with the seed of the first.
SecondProcess == round > 2

\* The draws of the first process are written down while its position is
\* known exactly.
Recording == alt # <<>> /\ ~SecondProcess /\ rng < MaxDraws

\* random.sample(range(n), 2) at the position rng: two different indices, in
\* either order.
random_sample(n) ==
    IF SecondProcess /\ rng < Len(log)
    THEN {log[rng + 1]}
    ELSE {<<a, b>> : a \in 1..n, b \in 1..n} \ {<<a, a>> : a \in 1..n}

(***************************************************************************)
(* Classify_kmeans                                                         *)
(***************************************************************************)
\* Lines 101-105: the reduction, then Kmeans(k=2).predict is entered.
Classify_kmeans_reduce ==
    /\ pc = "start"
    /\ entry = "Classify_kmeans"
    /\ IF PCA_raises(X, n_components)
       THEN /\ result' = Raised
            /\ pc' = "done"
            /\ newX' = newX
       ELSE /\ newX' = PCA_fit_transform(X)
            /\ pc' = "predict"
            /\ result' = result
    /\ UNCHANGED <<callVars, rngVars, kmeansVars, mixVars, y_pred>>

\* Kmeans.predict, the while test holds: times = times + 1.
predict_attempt ==
    /\ pc = "predict"
    /\ times < kmeans.resetTimes /\ ~resultGood
    /\ times' = times + 1
    /\ pc' = "draw"
    /\ UNCHANGED <<callVars, rngVars, newX, centroids, clusters, former_centroids, iter,
                   resultGood, idx, mixVars, y_pred, result>>

\* init_random_centroids: one random.sample(range(n_samples), 2), which gives
\* two different indices in either order, and a ValueError when there are
\* fewer than 2 rows.  Two identical rows are drawn again; otherwise the rows
\* become the centroids and the for loop is entered (with no iteration to
\* run it is left at once).
init_random_centroids ==
    /\ pc = "draw"
    /\ IF Rows(newX) < k
       THEN /\ result' = RaisedAs("ValueError")
            /\ pc' = "done"
            /\ UNCHANGED <<centroids, idx, iter, rngVars>>
       ELSE /\ \E pick \in random_sample(Rows(newX)) :
                /\ log' = IF Recording THEN Append(log, pick) ELSE log
                /\ IF SameRows(newX, pick[1], pick[2])
                   THEN UNCHANGED <<pc, centroids, idx, iter>>
                   ELSE /\ idx' = pick
                        /\ centroids' = init_centroids(newX, pick)
                        /\ iter' = 0
                        /\ pc' = IF kmeans.max_iterations > 0 THEN "iterate"
                                 ELSE "balance"
            /\ rng' = Min(rng + 1, MaxDraws)
            /\ result' = result
    /\ UNCHANGED <<callVars, newX, clusters, former_centroids, times,
                   resultGood, mixVars, y_pred>>

\* One pass of the for loop: assign, update, and the test that ends the loop.
predict_iterate ==
    /\ pc = "iterate"
    /\ iter < kmeans.max_iterations
    /\ LET cl == create_clusters(centroids, newX)
           cs == update_centroids(cl, newX)
       IN  /\ clusters' = cl
           /\ former_centroids' = centroids
           /\ centroids' = cs
           /\ IF \/ Converged(cs, centroids, kmeans.varepsilon)
                 \/ iter + 1 = kmeans.max_iterations
              THEN /\ pc' = "balance"
                   /\ iter' = iter
              ELSE /\ pc' = "iterate"
                   /\ iter' = iter + 1
    /\ UNCHANGED <<callVars, rngVars, newX, times, resultGood, idx, mixVars, y_pred,
                   result>>

\* Line 95-96: the balance test after the for loop.  It reads clusters, a
\* local that only the body of the for loop assigns (UnboundLocalError).
predict_balance ==
    /\ pc = "balance"
    /\ IF clusters = NoClusters
       THEN /\ result' = RaisedAs("UnboundLocalError")
            /\ pc' = "done"
            /\ resultGood' = resultGood
       ELSE /\ resultGood' = (resultGood \/ Balanced(clusters))
            /\ pc' = "predict"
            /\ result' = result
    /\ UNCHANGED <<callVars, rngVars, newX, centroids, clusters, former_centroids,
                   times, iter, idx, mixVars, y_pred>>

\* Line 98 reads centroids, a local that only the body of the while loop
\* assigns.
CentroidsBound == times > 0

\* The while test fails: predict returns get_cluster_labels_new, and
\* Classify_kmeans applies the majority rule to it (lines 107-120).
Classify_kmeans_return ==
    /\ pc = "predict"
    /\ entry = "Classify_kmeans"
    /\ ~(times < kmeans.resetTimes /\ ~resultGood)
    /\ IF CentroidsBound
       THEN /\ y_pred' = get_cluster_labels_new(centroids, clusters, newX)
            /\ result' = Returned(MajorityRule(y_pred'))
       ELSE /\ y_pred' = y_pred
            /\ result' = RaisedAs("UnboundLocalError")
    /\ pc' = "done"
    /\ UNCHANGED <<callVars, rngVars, newX, kmeansVars, mixVars>>

(***************************************************************************)
(* Kmeans(k, max_iterations, varepsilon, resetTimes).predict(X) called on  *)
(* its own, on a matrix of 2 columns.                                      *)
(***************************************************************************)
\* The arguments of the constructor: k = 2, max_iterations and resetTimes
\* from 0 up to MaxArg, varepsilon the default or a negative number.
KmeansArgs ==
    {Kmeans_init(k, mi, eps, rt) :
        mi \in 0..MaxArg, rt \in 0..MaxArg,
        eps \in {[num |-> 1, den |-> VarepsilonInv], [num |-> 0 - 1, den |-> 1]}}

InitPredict ==
    /\ entry = "Kmeans.predict"
    /\ argType = "ndarray"
    /\ X \in UNION {[1..n -> [1..2 -> 0..MaxCoord]] : n \in 0..MaxN}
    /\ unitInv = 1
    /\ kmeans \in KmeansArgs
    /\ FreshCall
    /\ FreshProcess

predict_enter ==
    /\ pc = "start"
    /\ entry = "Kmeans.predict"
    /\ newX' = X
    /\ pc' = "predict"
    /\ UNCHANGED <<callVars, rngVars, kmeansVars, mixVars, y_pred, result>>

\* predict on matrices of three points, with the default arguments but for
\* resetTimes, which is the default or a number from 1 up to MaxArg.
InitRestart ==
    /\ entry = "Kmeans.predict"
    /\ argType = "ndarray"
    /\ X \in ThreePointMatrices
    /\ unitInv = 1
    /\ kmeans \in {Kmeans_init(k, max_iterations,
                                [num |-> 1, den |-> VarepsilonInv], rt) :
                        rt \in (1..MaxArg) \cup {resetTimes}}
    /\ FreshCall
    /\ FreshProcess

\* The while test fails: line 98.
predict_return ==
    /\ pc = "predict"
    /\ entry = "Kmeans.predict"
    /\ ~(times < kmeans.resetTimes /\ ~resultGood)
    /\ IF CentroidsBound
       THEN /\ y_pred' = get_cluster_labels_new(centroids, clusters, newX)
            /\ result' = Returned(y_pred')
       ELSE /\ y_pred' = y_pred
            /\ result' = RaisedAs("UnboundLocalError")
    /\ pc' = "done"
    /\ UNCHANGED <<callVars, rngVars, newX, kmeansVars, mixVars>>

(***************************************************************************)
(* GMM and GMM2                                                            *)
(***************************************************************************)
MixOut(nx, n, used, f, y, res) ==
    [newX |-> nx, n |-> n, usedPCA |-> used, fit |-> f, y_pred |-> y,
     result |-> res]

\* GMM, lines 124-141: no guard and no handler.
GMM(M) ==
    IF PCA_raises(M, n_components)
    THEN {MixOut(<<>>, 0, FALSE, "none", <<>>, Raised)}
    ELSE LET nx == PCA_fit_transform(M)
         IN  {IF o.ok
              THEN MixOut(nx, 0, TRUE, "ok", o.y, Returned(MajorityRule(o.y)))
              ELSE MixOut(nx, 0, TRUE, "failed", <<>>, Raised)
                : o \in FitOutcomes(nx, n_components)}

\* GMM2_guard letting a list of one sample through (len(mask_list) < 1).
GMM2_guard_one(t, M) ==
    IF t = "ndarray"
    THEN IF Rows(M) * Cols(M) > 1 THEN {"raise"}
         ELSE IF Rows(M) * Cols(M) = 1 THEN {"return"}
         ELSE {"return", "raise"}
    ELSE IF Rows(M) < 1 THEN {"return"} ELSE {"continue"}

\* Line 145, "not mask_list or len(mask_list) < 2".  The truth value of a
\* list is whether it is non-empty.  The truth value of an ndarray is that of
\* its only element when it has one (NaN is true), a ValueError when it has
\* more, and for an empty one False or a ValueError, by the numpy version.
GMM2_guard(t, M) ==
    IF t = "ndarray"
    THEN IF Rows(M) * Cols(M) > 1 THEN {"raise"}
         ELSE IF Rows(M) * Cols(M) = 1 THEN {"return"}
         ELSE {"return", "raise"}
    ELSE IF Rows(M) < 2 THEN {"return"} ELSE {"continue"}

\* GMM2_skipPCA with the bound off by one.
GMM2_skipPCA_le(M) == Cols(M) <= 2

\* Line 160: mask_array.shape[1] < 2.
GMM2_skipPCA(M) == Cols(M) < 2

\* Lines 163 and 167.
GMM2_branch_components(M) ==
    IF GMM2_skipPCA(M) THEN Min(2, Rows(M)) ELSE n_components

\* Lines 199-203: the handler evaluates m.shape for every m in mask_list,
\* which an ndarray has and a list or a float has not (AttributeError).
GMM2_handler(t, M) ==
    IF t = "list_of_ndarray" \/ t = "ndarray"
    THEN Returned(Const(Rows(M), 0))
    ELSE RaisedAs("AttributeError")

\* Lines 150-197, the body of the try with its handler.
GMM2_try(t, M) ==
    LET zeros == Returned(Const(Rows(M), 0))
        skip  == GMM2_skipPCA(M)
    IN  IF t = "list_of_float"
        THEN {MixOut(<<>>, 0, FALSE, "none", <<>>, zeros)}
        ELSE IF ~skip /\ PCA_raises(M, n_components)
        THEN {MixOut(<<>>, 0, TRUE, "none", <<>>, GMM2_handler(t, M))}
        ELSE LET nx == IF skip THEN M ELSE PCA_fit_transform(M)
                 nc == Min(GMM2_branch_components(M), Rows(nx))
             IN  IF nc < 1
                 THEN {MixOut(nx, nc, ~skip, "none", <<>>, zeros)}
                 ELSE {IF ~o.ok
                       THEN MixOut(nx, nc, ~skip, "failed", <<>>,
                                   GMM2_handler(t, M))
                       ELSE IF nc = 1
                       THEN MixOut(nx, nc, ~skip, "ok", o.y,
                                   Returned(Const(Rows(M), 1)))
                       ELSE MixOut(nx, nc, ~skip, "ok", o.y,
                                   Returned(MajorityRuleVec(o.y)))
                         : o \in FitOutcomes(nx, nc)}

\* GMM2, lines 144-203.
GMM2(t, M) ==
    UNION {IF g = "raise"
           THEN {MixOut(<<>>, 0, FALSE, "none", <<>>, Raised)}
           ELSE IF g = "return"
           THEN {MixOut(<<>>, 0, FALSE, "none", <<>>,
                        Returned(Const(Rows(M), 0)))}
           ELSE GMM2_try(t, M)
             : g \in GMM2_guard(t, M)}

MixReturn(out) ==
    /\ newX' = out.newX
    /\ n_components_gmm' = out.n
    /\ usedPCA' = out.usedPCA
    /\ fit' = out.fit
    /\ y_pred' = out.y_pred
    /\ result' = out.result
    /\ pc' = "done"
    /\ UNCHANGED <<callVars, rngVars, kmeansVars>>

GMM_call ==
    /\ pc = "start"
    /\ entry = "GMM"
    /\ \E out \in GMM(X) : MixReturn(out)

GMM2_call ==
    /\ pc = "start"
    /\ entry = "GMM2"
    /\ \E out \in GMM2(argType, X) : MixReturn(out)

(***************************************************************************)
(* The round loop: Classify_kmeans is called once more, on the same rows   *)
(* in another order.                                                       *)
(***************************************************************************)
Perms(n) ==
    {p \in [1..n -> 1..n] : \A a, b \in 1..n : p[a] = p[b] => a = b}

Permute(M, p) == [r \in 1..Rows(M) |-> M[p[r]]]

NextRound ==
    /\ pc = "done"
    /\ entry = "Classify_kmeans"
    /\ result.status = "returned"
    /\ round = 1
    /\ Rows(X) <= MaxN
    /\ \E p \in Perms(Rows(X)) :
        /\ X' = Permute(X, p)
        /\ prev' = [labels |-> result.labels, idx |-> idx, perm |-> p]
    /\ round' = 2
    /\ pc' = "start"
    /\ newX' = <<>>
    /\ centroids' = NoCentroids
    /\ clusters' = NoClusters
    /\ former_centroids' = NoCentroids
    /\ times' = 0
    /\ iter' = 0
    /\ resultGood' = FALSE
    /\ idx' = <<0, 0>>
    /\ y_pred' = <<>>
    /\ result' = NoResult
    /\ UNCHANGED <<entry, argType, unitInv, kmeans, alt, rngVars, mixVars,
                   gapVars, toolVars>>

(***************************************************************************)
(* Kmeans.update_centroids called on its own, as predict calls it at lines *)
(* 89-90, on any two clusters that divide the rows between them.           *)
(***************************************************************************)
InitUpdate ==
    /\ entry = "update_centroids"
    /\ argType = "ndarray"
    /\ X \in [1..MaxN -> [1..2 -> 0..MaxCoord]]
    /\ unitInv = 1
    /\ kmeans = Kmeans_default
    /\ pc = "start"
    /\ newX = X
    /\ \E a \in 1..MaxN : \E b \in (1..MaxN) \ {a} :
        /\ idx = <<a, b>>
        /\ centroids = init_centroids(X, <<a, b>>)
    /\ \E S \in SUBSET (1..MaxN) : clusters = <<S, (1..MaxN) \ S>>
    /\ former_centroids = NoCentroids
    /\ times = 1
    /\ iter = 0
    /\ resultGood = FALSE
    /\ y_pred = <<>>
    /\ n_components_gmm = 0
    /\ usedPCA = FALSE
    /\ fit = "none"
    /\ result = NoResult
    /\ FreshProcess

\* Lines 89-90: former_centroids = centroids, then the update.
update_centroids_call ==
    /\ pc = "start"
    /\ entry = "update_centroids"
    /\ former_centroids' = centroids
    /\ centroids' = update_centroids(clusters, newX)
    /\ pc' = "done"
    /\ UNCHANGED <<callVars, rngVars, newX, clusters, times, iter, resultGood, idx,
                   mixVars, y_pred, result>>

(***************************************************************************)
(* Two processes started with the same seed.  Each calls Classify_kmeans   *)
(* twice; the second call is made on the same matrix in both, the first    *)
(* call on X in the first process and on alt in the second.  alt is X with *)
(* one row written over another (or over itself, which leaves X).          *)
(***************************************************************************)
InitSeeded ==
    /\ entry = "Classify_kmeans"
    /\ argType = "list_of_ndarray"
    /\ X \in [1..MaxN -> [1..2 -> 0..MaxCoord]]
    /\ alt \in {[X EXCEPT ![r] = X[q]] : r \in 1..MaxN, q \in 1..MaxN}
    /\ unitInv = 1
    /\ kmeans = Kmeans_default
    /\ FreshCall
    /\ rng = 0
    /\ log = <<>>
    /\ round = 1
    /\ prev = NoPrev
    /\ NoGap
    /\ NoTools

\* The next call.  After call 2 the second process starts: the generator is
\* back at position 0 and the draws of the first process are all written
\* down.
NextCall ==
    /\ pc = "done"
    /\ alt # <<>>
    /\ result.status = "returned"
    /\ round < 4
    /\ round = 2 => rng < MaxDraws
    /\ round' = round + 1
    /\ rng' = IF round = 2 THEN 0 ELSE rng
    /\ prev' = IF round = 2
               THEN [labels |-> result.labels, idx |-> idx, perm |-> <<>>]
               ELSE prev
    /\ X' = IF round = 1 THEN X ELSE alt
    /\ alt' = IF round = 1 THEN alt ELSE X
    /\ pc' = "start"
    /\ newX' = <<>>
    /\ centroids' = NoCentroids
    /\ clusters' = NoClusters
    /\ former_centroids' = NoCentroids
    /\ times' = 0
    /\ iter' = 0
    /\ resultGood' = FALSE
    /\ idx' = <<0, 0>>
    /\ y_pred' = <<>>
    /\ result' = NoResult
    /\ UNCHANGED <<entry, argType, unitInv, kmeans, log, mixVars, gapVars,
                   toolVars>>

(***************************************************************************)
(* optimal_k_gap, clustering.py lines 12-82.                               *)
(*                                                                         *)
(* The numerical work (the KMeans fits with random_state, the dispersions, *)
(* the logarithms, the mean and the deviation) is library code and a       *)
(* function of the data, of the arguments and of the reference data.  The  *)
(* model does not compute it: the first time some reference data is seen   *)
(* any gap and sdk can come out, and the same reference data gives the     *)
(* same gap and sdk again (memo).  The reference data drawn by one call of *)
(* np.random.uniform is a function of the generator state it is drawn in.  *)
(* Of X the model reads the number of rows only.                           *)
(***************************************************************************)
Seeds == {42, 43}

\* The states the global generator can be in when optimal_k_gap is called.
NpStates == {NpState(s, p) : s \in Seeds, p \in 0..1}

\* optimal_k_gap without line 36: the generator is left as it is.
NpSeed_skip(state, seed) == state

\* Line 36, np.random.seed(random_state).
NpSeed(state, seed) == NpState(seed, 0)

\* One call of np.random.uniform moves the generator on.
NpAdvance(state) == NpState(state.seed, state.pos + 1)

\* Lines 71-74 for the reference data refs.
Statistics(refs, K) ==
    IF \E m \in memo : m.refs = refs
    THEN {m \in memo : m.refs = refs}
    ELSE {[refs |-> refs, gap |-> g, sdk |-> s] :
            g \in [1..K -> 0..MaxGap], s \in [1..K -> 0..1]}

RECURSIVE select_k_strict_from(_, _, _, _)
select_k_strict_from(gap, sdk, K, i) ==
    IF i > K - 1 THEN K
    ELSE IF gap[i] > gap[i + 1] - sdk[i + 1] THEN i
    ELSE select_k_strict_from(gap, sdk, K, i + 1)

\* select_k with > for >=.
select_k_strict(gap, sdk, K) == select_k_strict_from(gap, sdk, K, 1)

\* Lines 76-80 from the index i on: the loop leaves at the first i whose
\* test holds, and optimal_k stays ks[-1] when none does.
RECURSIVE select_k_from(_, _, _, _)
select_k_from(gap, sdk, K, i) ==
    IF i > K - 1 THEN K
    ELSE IF gap[i] >= gap[i + 1] - sdk[i + 1] THEN i
    ELSE select_k_from(gap, sdk, K, i + 1)

select_k(gap, sdk, K) == select_k_from(gap, sdk, K, 1)

InitGap ==
    /\ entry = "optimal_k_gap"
    /\ argType = "ndarray"
    /\ X \in {[r \in 1..n |-> <<0>>] : n \in 1..MaxN}
    /\ unitInv = 1
    /\ kmeans = Kmeans_default
    /\ FreshCall
    /\ rng = 0
    /\ log = <<>>
    /\ alt = <<>>
    /\ round = 1
    /\ prev = NoPrev
    /\ np_rng \in NpStates
    /\ memo = {}
    /\ \E K \in 1..MaxK, B \in 1..MaxB, seed \in Seeds :
        okg = [NoOkg EXCEPT !.k_max = K, !.B = B, !.random_state = seed]
    /\ first = NoFirst
    /\ NoTools

gapOthers ==
    <<entry, argType, X, unitInv, kmeans, round, prev, alt, rngVars, newX,
      kmeansVars, mixVars, y_pred, toolVars>>

\* Line 36.
gap_seed ==
    /\ pc = "start"
    /\ entry = "optimal_k_gap"
    /\ okg' = [okg EXCEPT !.np_before = np_rng]
    /\ np_rng' = NpSeed(np_rng, okg.random_state)
    /\ pc' = "Wks"
    /\ UNCHANGED <<gapOthers, memo, first, result>>

\* Line 60: KMeans(n_clusters=k) raises a ValueError when the data has fewer
\* rows than k.
gap_Wks ==
    /\ pc = "Wks"
    /\ IF okg.k_max > Rows(X)
       THEN /\ result' = Raised
            /\ pc' = "done"
       ELSE /\ result' = result
            /\ pc' = "reference"
    /\ UNCHANGED <<gapOthers, gapVars>>

\* Lines 66-69, one pass: a reference dataset is drawn from the global
\* generator.
gap_reference ==
    /\ pc = "reference"
    /\ Len(okg.refs) < okg.B
    /\ okg' = [okg EXCEPT !.refs = Append(@, np_rng)]
    /\ np_rng' = NpAdvance(np_rng)
    /\ UNCHANGED <<gapOthers, memo, first, result, pc>>

\* Lines 71-74.
gap_statistics ==
    /\ pc = "reference"
    /\ Len(okg.refs) = okg.B
    /\ \E m \in Statistics(okg.refs, okg.k_max) :
        /\ okg' = [okg EXCEPT !.gap = m.gap, !.sdk = m.sdk]
        /\ memo' = memo \cup {m}
    /\ pc' = "select"
    /\ UNCHANGED <<gapOthers, np_rng, first, result>>

\* Lines 76-82.
gap_select ==
    /\ pc = "select"
    /\ okg' = [okg EXCEPT !.optimal_k = select_k(okg.gap, okg.sdk, okg.k_max)]
    /\ result' = Returned(<<okg'.optimal_k>>)
    /\ pc' = "done"
    /\ UNCHANGED <<gapOthers, np_rng, memo, first>>

\* A second call with the same arguments, after other code has left the
\* global generator in any state.
gap_again ==
    /\ pc = "done"
    /\ entry = "optimal_k_gap"
    /\ round = 1
    /\ result.status = "returned"
    /\ first' = [optimal_k |-> okg.optimal_k, np_before |-> okg.np_before]
    /\ round' = 2
    /\ np_rng' \in NpStates
    /\ okg' = [NoOkg EXCEPT !.k_max = okg.k_max, !.B = okg.B,
                            !.random_state = okg.random_state]
    /\ result' = NoResult
    /\ pc' = "start"
    /\ UNCHANGED <<entry, argType, X, unitInv, kmeans, prev, alt, rngVars,
                   newX, kmeansVars, mixVars, y_pred, memo, toolVars>>

(***************************************************************************)
(* _calculate_target_counts, text_data_processor.py lines 582-628.         *)
(*                                                                         *)
(* The classes of the proportions map are numbered 1..n in the order of    *)
(* the dict.  A map is the record [den, w]: the proportion of class c is   *)
(* the fraction w[c] / den.  A class that is not a key of a dict built     *)
(* from the map has the entry 0 there.                                     *)
(***************************************************************************)
\* np.isclose(a, 1.0) with the default rtol = 1e-5 and atol = 1e-8:
\* |a - 1| <= 1.001e-5, the fraction IscloseTolNum / IscloseTolDen.
IscloseTolNum == 1001

IscloseTolDen == 100000000

\* The denominator of the proportions that are given to five decimals.
CloseDen == IscloseTolDen \div 1000

RECURSIVE SeqSum(_)
SeqSum(s) == IF s = <<>> THEN 0 ELSE s[1] + SeqSum(Tail(s))

\* np.isclose(W / den, 1.0).
IsClose(W, den) == Abs(W - den) <= (IscloseTolNum * den) \div IscloseTolDen

\* int(round(w / den * total)) for w >= 0, total >= 0: Python rounds a half
\* to the even neighbour.  The product is formed as a whole part and a
\* remainder over den.
RoundedShare(w, den, total) ==
    LET part == w * (total % den)
        q    == w * (total \div den) + part \div den
        r    == part % den
    IN  IF 2 * r < den THEN q
        ELSE IF 2 * r > den THEN q + 1
        ELSE IF q % 2 = 0 THEN q
        ELSE q + 1

\* The keys of valid_proportions.
ValidClasses(vp) == {c \in DOMAIN vp.w : vp.w[c] > 0}

\* c comes before d in sorted(..., key=valid_proportions.get, reverse=desc):
\* the sort is stable, also when reversed.
SortsBefore(vp, desc, c, d) ==
    \/ (IF desc THEN vp.w[c] > vp.w[d] ELSE vp.w[c] < vp.w[d])
    \/ (vp.w[c] = vp.w[d] /\ c < d)

RECURSIVE SortedClasses(_, _, _)
SortedClasses(vp, desc, S) ==
    IF S = {} THEN <<>>
    ELSE LET c == CHOOSE x \in S : \A d \in S \ {x} : SortsBefore(vp, desc, x, d)
         IN  <<c>> \o SortedClasses(vp, desc, S \ {c})

\* The proportions maps given: whole weights from -1 up to MaxWeight for up
\* to MaxClasses classes, and proportions of five decimals whose sum is
\* within the tolerance of np.isclose of 1.
ProportionMaps ==
    {[den |-> 1, w |-> w] :
        w \in UNION {[1..n -> (0 - 1)..MaxWeight] : n \in 0..MaxClasses}}
    \cup
    {m \in {[den |-> CloseDen, w |-> w] :
                w \in UNION {[1..n -> {CloseDen \div 2, CloseDen \div 2 + 1,
                                       CloseDen, CloseDen + 1}] : n \in 1..2}} :
        IsClose(SeqSum(m.w), m.den)}

\* total_samples: from 0 up to MaxTotal, in units of the denominator.
InitCounts ==
    /\ entry = "_calculate_target_counts"
    /\ argType = "dict"
    /\ X = <<>>
    /\ unitInv = 1
    /\ kmeans = Kmeans_default
    /\ FreshCall
    /\ rng = 0
    /\ log = <<>>
    /\ alt = <<>>
    /\ round = 1
    /\ prev = NoPrev
    /\ NoGap
    /\ stopper = NoStopper
    /\ updates = <<>>
    /\ \E m \in ProportionMaps, t \in 0..MaxTotal :
        tc = [NoTc EXCEPT !.proportions = m, !.total_samples = t * m.den]

tcOthers ==
    <<entry, argType, X, unitInv, kmeans, round, prev, alt, gapVars, rngVars,
      newX, kmeansVars, mixVars, y_pred, stopper, updates>>

\* Lines 586-594: the classes with a positive proportion are kept; when there
\* is none every class is given 1 / len(proportions), and an empty map ends
\* the call with {}.
tc_sanitize ==
    /\ pc = "start"
    /\ entry = "_calculate_target_counts"
    /\ LET p == tc.proportions
           n == Len(p.w)
           kept == [den |-> p.den,
                    w |-> [c \in 1..n |-> IF p.w[c] > 0 THEN p.w[c] ELSE 0]]
           uniform == [den |-> n, w |-> [c \in 1..n |-> 1]]
       IN  IF ValidClasses(kept) # {}
           THEN /\ tc' = [tc EXCEPT !.valid_proportions = kept]
                /\ pc' = "normalize"
                /\ result' = result
           ELSE IF n > 0
           THEN /\ tc' = [tc EXCEPT !.valid_proportions = uniform]
                /\ pc' = "normalize"
                /\ result' = result
           ELSE /\ tc' = tc
                /\ pc' = "done"
                /\ result' = Returned(<<>>)
    /\ UNCHANGED tcOthers

\* Lines 597-600: every proportion is divided by the sum unless the sum is
\* close to 1.
tc_normalize ==
    /\ pc = "normalize"
    /\ LET vp == tc.valid_proportions
           prop_sum == SeqSum(vp.w)
       IN  tc' = IF IsClose(prop_sum, vp.den) THEN tc
                 ELSE [tc EXCEPT !.valid_proportions.den = prop_sum]
    /\ pc' = "round"
    /\ UNCHANGED <<tcOthers, result>>

\* Lines 603-613: the rounded counts, their difference from total_samples,
\* and the order in which the classes are adjusted.
tc_round ==
    /\ pc = "round"
    /\ LET vp == tc.valid_proportions
           counts == [c \in DOMAIN vp.w |->
                        RoundedShare(vp.w[c], vp.den, tc.total_samples)]
           diff == tc.total_samples - SeqSum(counts)
       IN  tc' = [tc EXCEPT
                    !.counts = counts,
                    !.diff = diff,
                    !.sorted_classes =
                        IF diff # 0
                        THEN SortedClasses(vp, diff > 0, ValidClasses(vp))
                        ELSE <<>>,
                    !.idx = 0,
                    !.loops = 0]
    /\ pc' = "adjust"
    /\ UNCHANGED <<tcOthers, result>>

\* max_adjust_loops, line 612.
max_adjust_loops == 2 * Len(tc.sorted_classes)

\* The test of the while loop, line 614.
tc_adjusting == tc.diff # 0 /\ tc.loops < max_adjust_loops

\* Lines 615-622, one pass of the while loop.
tc_adjust ==
    /\ pc = "adjust"
    /\ tc_adjusting
    /\ LET cls_to_adjust ==
               tc.sorted_classes[(tc.idx % Len(tc.sorted_classes)) + 1]
           adjustment == IF tc.diff > 0 THEN 1 ELSE 0 - 1
       IN  tc' = IF tc.counts[cls_to_adjust] + adjustment >= 0
                 THEN [tc EXCEPT !.counts[cls_to_adjust] = @ + adjustment,
                                 !.diff = @ - adjustment,
                                 !.idx = @ + 1,
                                 !.loops = @ + 1]
                 ELSE [tc EXCEPT !.idx = @ + 1, !.loops = @ + 1]
    /\ UNCHANGED <<tcOthers, result, pc>>

\* Lines 623-628: the loop has ended (a difference that is left is logged);
\* every class of proportions is given its count, 0 when it has none.
tc_return ==
    /\ pc = "adjust"
    /\ ~tc_adjusting
    /\ result' = Returned(tc.counts)
    /\ pc' = "done"
    /\ UNCHANGED <<tcOthers, tc>>

(***************************************************************************)
(* class FederatedEarlyStopper, backdoor_attack.py lines 114-153, and the  *)
(* round loop of backdoor_attack that consults it (lines 355-378).         *)
(*                                                                         *)
(* The monitored values and min_delta are whole multiples of one unit.     *)
(* best_score is <<>> for None and <<v>> for the value v.                  *)
(***************************************************************************)
\* __init__, lines 115-126.
FederatedEarlyStopper_init(patience, min_delta, monitor) ==
    [patience |-> patience, min_delta |-> min_delta, monitor |-> monitor,
     best_score |-> <<>>, counter |-> 0]

\* The monitors a stopper is built with; only the first two are known to
\* update.
Monitors == {"loss", "acc", "f1"}

\* Lines 140-143.
improvement(s, current_value) ==
    IF s.monitor = "loss" THEN s.best_score[1] - current_value
    ELSE current_value - s.best_score[1]

\* Improved taking an improvement of exactly min_delta as well.
Improved_geq(s, current_value) == improvement(s, current_value) >= s.min_delta

\* Line 147: improvement > self.min_delta.
Improved(s, current_value) == improvement(s, current_value) > s.min_delta

\* ShouldStop one update late.
ShouldStop_late(s) == s.counter > s.patience

\* Line 153: self.counter >= self.patience.
ShouldStop(s) == s.counter >= s.patience

Bool(b) == IF b THEN "True" ELSE "False"

\* update, lines 128-153: the object after the call, and what the call gave
\* ("True", "False", or "ValueError" when it raised).
update(s, current_value) ==
    IF s.best_score = <<>>
    THEN [stopper |-> [s EXCEPT !.best_score = <<current_value>>],
          out |-> "False"]
    ELSE IF s.monitor \notin {"loss", "acc"}
    THEN [stopper |-> s, out |-> "ValueError"]
    ELSE LET t == IF Improved(s, current_value)
                  THEN [s EXCEPT !.best_score = <<current_value>>,
                                 !.counter = 0]
                  ELSE [s EXCEPT !.counter = @ + 1]
         IN  [stopper |-> t, out |-> Bool(ShouldStop(t))]

\* What is written down of one call of update: the value passed, what the
\* call gave, and best_score and counter after it.
UpdateRecord(u, current_value) ==
    [value |-> current_value, out |-> u.out,
     best_score |-> u.stopper.best_score, counter |-> u.stopper.counter]

\* The stopper is used on its own, or by the round loop of backdoor_attack.
\* backdoor_attack builds it with patience 20 (line 256); here it is built
\* with a patience of at most MaxPatience so that the break is reached.
InitStopper ==
    /\ entry \in {"FederatedEarlyStopper", "backdoor_attack"}
    /\ argType = "float"
    /\ X = <<>>
    /\ unitInv = 1
    /\ kmeans = Kmeans_default
    /\ FreshCall
    /\ rng = 0
    /\ log = <<>>
    /\ alt = <<>>
    /\ round = 1
    /\ prev = NoPrev
    /\ NoGap
    /\ tc = NoTc
    /\ \E p \in 0..MaxPatience, d \in (0 - MaxValue)..1, m \in Monitors :
        stopper = FederatedEarlyStopper_init(p, d, m)
    /\ updates = <<>>

stopperOthers ==
    <<entry, argType, X, unitInv, kmeans, prev, alt, gapVars, rngVars, newX,
      kmeansVars, mixVars, y_pred, tc>>

\* One call of update on the object, with any value.
stopper_update ==
    /\ pc = "start"
    /\ entry = "FederatedEarlyStopper"
    /\ Len(updates) < MaxUpdates
    /\ \E current_value \in 0..MaxValue :
        LET u == update(stopper, current_value)
        IN  /\ stopper' = u.stopper
            /\ updates' = Append(updates, UpdateRecord(u, current_value))
            /\ IF u.out = "ValueError"
               THEN /\ result' = RaisedAs("ValueError")
                    /\ pc' = "done"
               ELSE UNCHANGED <<result, pc>>
    /\ UNCHANGED <<stopperOthers, round>>

\* Lines 373-377, one round with a global performance: update is called
\* and the loop is left when it gives True.
backdoor_attack_round ==
    /\ pc = "start"
    /\ entry = "backdoor_attack"
    /\ round <= MaxUpdates
    /\ \E current_val_loss \in 0..MaxValue :
        LET u == update(stopper, current_val_loss)
        IN  /\ stopper' = u.stopper
            /\ updates' = Append(updates, UpdateRecord(u, current_val_loss))
            /\ IF u.out = "ValueError"
               THEN /\ result' = RaisedAs("ValueError")
                    /\ pc' = "done"
               ELSE /\ result' = result
                    /\ pc' = IF u.out = "True" THEN "done" ELSE pc
    /\ round' = round + 1
    /\ UNCHANGED stopperOthers

\* Line 373, a round whose perf_global is None: update is not called.
backdoor_attack_round_skip ==
    /\ pc = "start"
    /\ entry = "backdoor_attack"
    /\ round <= MaxUpdates
    /\ round' = round + 1
    /\ UNCHANGED <<stopperOthers, stopper, updates, result, pc>>

(***************************************************************************)
(* Specifications                                                          *)
(***************************************************************************)
Next ==
    \/ Classify_kmeans_reduce
    \/ predict_attempt
    \/ init_random_centroids
    \/ predict_iterate
    \/ predict_balance
    \/ Classify_kmeans_return
    \/ GMM_call
    \/ GMM2_call

\* One call of one of the three functions.
Spec == Init /\ [][Next]_vars

NextRounds == Next \/ NextRound

\* A call, and for Classify_kmeans a second call after it.
SpecRounds == Init /\ [][NextRounds]_vars

NextSeeded ==
    \/ Classify_kmeans_reduce
    \/ predict_attempt
    \/ init_random_centroids
    \/ predict_iterate
    \/ predict_balance
    \/ Classify_kmeans_return
    \/ NextCall

\* Four calls of Classify_kmeans by two processes with one seed.
SpecSeeded == InitSeeded /\ [][NextSeeded]_vars

NextGap ==
    \/ gap_seed
    \/ gap_Wks
    \/ gap_reference
    \/ gap_statistics
    \/ gap_select
    \/ gap_again

\* Two calls of optimal_k_gap with the same arguments.
SpecGap == InitGap /\ [][NextGap]_vars

NextPredict ==
    \/ predict_enter
    \/ predict_attempt
    \/ init_random_centroids
    \/ predict_iterate
    \/ predict_balance
    \/ predict_return

\* One call of predict on a Kmeans object built with any arguments.
SpecPredict == InitPredict /\ [][NextPredict]_vars

\* One call of predict with the default arguments but for resetTimes.
SpecRestart == InitRestart /\ [][NextPredict]_vars

NextCounts ==
    \/ tc_sanitize
    \/ tc_normalize
    \/ tc_round
    \/ tc_adjust
    \/ tc_return

\* One call of _calculate_target_counts.
SpecCounts == InitCounts /\ [][NextCounts]_vars

NextStopper ==
    \/ stopper_update
    \/ backdoor_attack_round
    \/ backdoor_attack_round_skip

\* The calls of update made on one FederatedEarlyStopper.
SpecStopper == InitStopper /\ [][NextStopper]_vars

\* One call of update_centroids.
SpecUpdate == InitUpdate /\ [][update_centroids_call]_vars

(***************************************************************************)
(* Claims                                                                  *)
(***************************************************************************)
Done(e) == pc = "done" /\ entry = e

Identical(M) == \A a, b \in DOMAIN M : M[a] = M[b]

\* Empty, singleton, all rows identical, or fewer than 2 columns.
Degenerate(M) == Rows(M) < 2 \/ Identical(M) \/ Cols(M) < 2

\* C1: a call of Classify_kmeans, GMM or GMM2 on an empty, singleton or
\* degenerate feature matrix (finite entries, no failure inside the mixture
\* fit) ends by returning labels, never by raising.
C1_NeverRaises ==
    (pc = "done" /\ Degenerate(X) /\ ~HasNaN(X) /\ fit # "failed")
        => result.status = "returned"

Larger(cl) ==
    IF Cardinality(cl[1]) > Cardinality(cl[2]) THEN cl[1] ELSE cl[2]

Smaller(cl) ==
    IF Cardinality(cl[1]) > Cardinality(cl[2]) THEN cl[2] ELSE cl[1]

\* C2: when Kmeans.predict ends with two clusters of different sizes,
\* Classify_kmeans labels every member of the larger cluster 1 and every
\* member of the smaller cluster 0.
C2_MajorityAsBenign ==
    (Done("Classify_kmeans") /\ result.status = "returned"
        /\ Cardinality(clusters[1]) # Cardinality(clusters[2]))
        => /\ \A r \in Larger(clusters) : result.labels[r] = 1
           /\ \A r \in Smaller(clusters) : result.labels[r] = 0

C2_Witness ==
    /\ Done("Classify_kmeans")
    /\ result.status = "returned"
    /\ Cardinality(clusters[1]) # Cardinality(clusters[2])
    /\ clusters[1] # {}
    /\ clusters[2] # {}
    /\ times = kmeans.resetTimes
    /\ ~resultGood
    /\ \E r \in DOMAIN result.labels : result.labels[r] = 0

\* C3: the vector Classify_kmeans returns has at least as many 1 as 0, and it
\* is the vector of Kmeans.predict with every label flipped exactly when that
\* vector has fewer 1 than 0, and the vector itself otherwise.
C3_FlipIffMinority ==
    (Done("Classify_kmeans") /\ result.status = "returned")
        => /\ Count(result.labels, 1) >= Count(result.labels, 0)
           /\ result.labels =
                IF Count(y_pred, 1) < Count(y_pred, 0)
                THEN [r \in DOMAIN y_pred |-> 1 - y_pred[r]]
                ELSE y_pred

C3_Witness ==
    /\ Done("Classify_kmeans")
    /\ result.status = "returned"
    /\ Count(y_pred, 1) < Count(y_pred, 0)
    /\ Count(y_pred, 1) > 0
    /\ result.labels # y_pred

\* C4: GMM2 called with fewer than 2 samples returns one 0 per sample ([0]
\* for one sample, [] for none) without a reduction or a mixture fit.
C4_FewSamplesAllMalicious ==
    (Done("GMM2") /\ Rows(X) < 2)
        => /\ result = Returned(Const(Rows(X), 0))
           /\ fit = "none"
           /\ ~usedPCA

\* A failure inside the try of GMM2: the reduction or the mixture fit raised.
GMM2_failed == fit = "failed" \/ (usedPCA /\ PCA_raises(X, n_components))

\* C5: a call of GMM2 with at least 2 samples never raises, whatever the type
\* of its argument, and after a failure of the reduction or of the mixture
\* fit it returns one 0 per sample.
C5_FailureCaught ==
    (Done("GMM2") /\ Rows(X) >= 2)
        => /\ result.status = "returned"
           /\ GMM2_failed => result.labels = Const(Rows(X), 0)

\* C6: after a 2-component fit GMM and GMM2 return the fitted labels with
\* every label flipped exactly when 0 is the strictly more frequent label, so
\* 1 is never the strictly smaller group and a tie leaves the labels as fitted.
C6_MixtureFlip ==
    (pc = "done" /\ entry \in {"GMM", "GMM2"} /\ fit = "ok")
        => /\ result.status = "returned"
           /\ result.labels =
                IF Count(y_pred, 0) > Count(y_pred, 1)
                THEN [r \in DOMAIN y_pred |-> 1 - y_pred[r]]
                ELSE y_pred
           /\ Count(result.labels, 1) >= Count(result.labels, 0)

C6_Witness ==
    /\ Done("GMM2")
    /\ fit = "ok"
    /\ n_components_gmm = 2
    /\ Count(y_pred, 0) = Count(y_pred, 1)
    /\ Rows(X) >= 2
    /\ result.labels = y_pred

\* C8: a call of GMM2 on a list of N >= 2 rows converted to a 2-D array skips
\* the reduction and fits the mixture on the raw features when they have
\* fewer than 2 columns, and otherwise reduces them to 2 axes first (and fits
\* the reduced features unless the reduction raised); the fit is given
\* min(2, N) components in both cases.
C8_ReductionBranch ==
    (Done("GMM2") /\ argType \in {"list_of_ndarray", "list_of_list"}
        /\ Rows(X) >= 2)
        => /\ Cols(X) < 2 =>
                /\ ~usedPCA
                /\ fit # "none"
                /\ newX = X
                /\ n_components_gmm = Min(2, Rows(X))
           /\ Cols(X) >= 2 =>
                /\ usedPCA
                /\ \/ PCA_raises(X, n_components) /\ fit = "none"
                   \/ /\ fit # "none"
                      /\ newX = PCA_fit_transform(X)
                      /\ Cols(newX) = 2
                      /\ n_components_gmm = Min(2, Rows(X))

C8_Witness ==
    /\ Done("GMM2")
    /\ fit = "ok"
    /\ Cols(X) = 1
    /\ Rows(X) >= 2
    /\ ~usedPCA
    /\ n_components_gmm = 2

SecondDone ==
    /\ Done("Classify_kmeans")
    /\ round = 2
    /\ result.status = "returned"

\* C9: two calls of Classify_kmeans on the identical feature matrix return
\* identical labels, whatever initial centroids each call draws.
C9_Idempotent ==
    (SecondDone /\ prev.perm = [r \in 1..Rows(X) |-> r])
        => result.labels = prev.labels

\* C10: classifying the matrix with its rows permuted and moving each label
\* back to its row gives the labels of the matrix itself; stated for two
\* calls that accept the same indices as initial centroids.
C10_RowPermutationInvariant ==
    (SecondDone /\ idx = prev.idx)
        => \A r \in 1..Rows(X) : result.labels[r] = prev.labels[prev.perm[r]]

\* C16: every vector that Classify_kmeans, GMM or GMM2 returns, on a fallback
\* path or not, has exactly one entry per row of the input, and every entry
\* is 0 or 1.
C16_LabelsWellFormed ==
    (pc = "done" /\ result.status = "returned")
        => /\ DOMAIN result.labels = 1..Rows(X)
           /\ \A r \in 1..Rows(X) : result.labels[r] \in {0, 1}

C16_Witness ==
    /\ Done("Classify_kmeans")
    /\ result.status = "returned"
    /\ Rows(X) = MaxN
    /\ \E r \in 1..Rows(X) : result.labels[r] = 0
    /\ \E r \in 1..Rows(X) : y_pred[r] # result.labels[r]

\* init_random_centroids has just returned: the for loop has not yet run.
Drawn == pc = "iterate" /\ iter = 0

\* C17: when init_random_centroids returns, the two initial centroids are two
\* rows of the matrix at two different indices, and the two rows are not the
\* same vector.
C17_InitialCentroidsDistinct ==
    Drawn
        => /\ idx[1] \in 1..Rows(newX)
           /\ idx[2] \in 1..Rows(newX)
           /\ idx[1] # idx[2]
           /\ newX[idx[1]] # newX[idx[2]]
           /\ \A j \in 1..k : centroids[j] = [s |-> newX[idx[j]], n |-> 1]

C17_Witness ==
    /\ Drawn
    /\ \E a, b \in 1..Rows(newX) : a # b /\ newX[a] = newX[b]
    /\ newX[idx[1]] # newX[idx[2]]
    /\ times = 1
    /\ rng > times

\* The squared distance d1 is at most (less than) the squared distance d2.
DistLeq(d1, d2) == d1.num * d2.den <= d2.num * d1.den

DistLess(d1, d2) == d1.num * d2.den < d2.num * d1.den

\* C18: the assign step puts every row in exactly one of the two clusters,
\* that of a centroid at minimum squared Euclidean distance from it, and a
\* row at the same distance from both centroids in the cluster of the
\* first centroid.
C18_AssignNearest ==
    clusters # NoClusters
        => /\ \A j \in 1..k : ~IsNaNCentroid(former_centroids[j])
           /\ clusters[1] \cup clusters[2] = 1..Rows(newX)
           /\ clusters[1] \cap clusters[2] = {}
           /\ \A r \in 1..Rows(newX) :
                LET d1 == euclidean_distance(newX[r], former_centroids[1])
                    d2 == euclidean_distance(newX[r], former_centroids[2])
                IN  /\ r \in clusters[1] => DistLeq(d1, d2)
                    /\ r \in clusters[2] => DistLess(d2, d1)

C18_Witness ==
    /\ clusters # NoClusters
    /\ \E r \in clusters[1] :
        LET d1 == euclidean_distance(newX[r], former_centroids[1])
            d2 == euclidean_distance(newX[r], former_centroids[2])
        IN  DistLeq(d1, d2) /\ DistLeq(d2, d1)
    /\ \E r \in clusters[2] : TRUE

\* a * F * F < b for naturals a, b and F >= 1, without forming F * F.
ScaledLess(a, F, b) ==
    IF a = 0 THEN 0 < b
    ELSE IF b = 0 THEN FALSE
    ELSE F <= ((b - 1) \div a) \div F

\* The displacement norm of one centroid over the last iteration is below
\* varepsilon.  The centroids are kept multiplied by Rows(X) * unitInv, so
\* with v = c.s * f.n - f.s * c.n and m = c.n * f.n * Rows(X) the test is
\* |v| * VarepsilonInv < m * unitInv.
DisplacementBelowEps(c, f) ==
    /\ ~IsNaNCentroid(c)
    /\ ~IsNaNCentroid(f)
    /\ LET v == [d \in 1..2 |-> c.s[d] * f.n - f.s[d] * c.n]
           m == c.n * f.n * Rows(X)
       IN  IF unitInv % VarepsilonInv = 0
           THEN NormSq(v) < (m * (unitInv \div VarepsilonInv))
                                * (m * (unitInv \div VarepsilonInv))
           ELSE ScaledLess(NormSq(v), VarepsilonInv,
                           (m * unitInv) * (m * unitInv))

MaxDisplacementBelowEps ==
    \A j \in 1..k : DisplacementBelowEps(centroids[j], former_centroids[j])

\* C20: within one attempt the loop of assign and update stops after the
\* first iteration in which the largest displacement norm of a centroid is
\* below varepsilon, or after max_iterations iterations: when it has stopped
\* one of the two holds, and while it goes on the displacement of the last
\* iteration was not below varepsilon.
C20_StopsAtEpsilon ==
    /\ pc = "balance"
        => (MaxDisplacementBelowEps \/ iter + 1 = max_iterations)
    /\ (pc = "iterate" /\ iter >= 1) => ~MaxDisplacementBelowEps

\* The centroid c is the mean of the rows of M listed in S.
IsMeanOf(c, M, S) ==
    /\ ~IsNaNCentroid(c)
    /\ \A d \in 1..2 : c.s[d] * Cardinality(S) = SumOver(M, S, d) * c.n

\* C19: after the update step every centroid with at least one assigned row
\* is the mean of its rows, every centroid with no assigned row has the value
\* it had before the step, and no centroid is NaN.
C19_UpdateKeepsEmpty ==
    Done("update_centroids")
        => \A j \in 1..k :
            /\ clusters[j] # {} => IsMeanOf(centroids[j], newX, clusters[j])
            /\ clusters[j] = {} => centroids[j] = former_centroids[j]
            /\ ~IsNaNCentroid(centroids[j])

\* The configuration the claim calls invalid: k other than 2 or above the
\* number of rows, max_iterations not positive, varepsilon negative,
\* resetTimes below 1.
InvalidConfiguration ==
    \/ kmeans.k # 2
    \/ kmeans.k > Rows(X)
    \/ kmeans.max_iterations <= 0
    \/ kmeans.varepsilon.num < 0
    \/ kmeans.resetTimes < 1

\* C13: predict on a Kmeans object with an invalid configuration ends by
\* raising ConfigurationError before any clustering work (no attempt is
\* started, no centroid drawn), never by another exception or by returning
\* labels.
C13_ConfigurationError ==
    (Done("Kmeans.predict") /\ InvalidConfiguration)
        => /\ result = RaisedAs("ConfigurationError")
           /\ times = 0
           /\ idx = <<0, 0>>

\* The second call of the second process has ended.
FourthDone ==
    /\ Done("Classify_kmeans")
    /\ round = 4
    /\ result.status = "returned"

\* C11: the second call of a process draws the same initial centroids and
\* returns the same labels whatever matrix the first call was given: two
\* processes with the same seed that differ only in the matrix of their
\* first call agree on the second.
C11_Stateless ==
    FourthDone => (idx = prev.idx /\ result.labels = prev.labels)

\* C12: a call of Classify_kmeans leaves the generator of the module random
\* where it was: nothing is drawn from it.
C12_GlobalGeneratorUntouched ==
    (Done("Classify_kmeans") /\ round = 1) => rng = 0

GapReturned == Done("optimal_k_gap") /\ result.status = "returned"

\* The test of the selection rule at k.
GapTest(i) == okg.gap[i] >= okg.gap[i + 1] - okg.sdk[i + 1]

\* C14: optimal_k_gap returns the smallest k in 1..k_max-1 with
\* gap(k) >= gap(k+1) - sdk(k+1), and k_max when there is none; what it
\* returns is in 1..k_max.
C14_SmallestGapK ==
    GapReturned
        => /\ okg.optimal_k \in 1..okg.k_max
           /\ \A i \in 1..(okg.optimal_k - 1) : ~GapTest(i)
           /\ okg.optimal_k < okg.k_max => GapTest(okg.optimal_k)
           /\ result.labels = <<okg.optimal_k>>

C14_Witness ==
    /\ GapReturned
    /\ okg.k_max = MaxK
    /\ okg.optimal_k > 1
    /\ okg.optimal_k < okg.k_max

\* C15: two calls of optimal_k_gap with the same X, k_max, B and
\* random_state return the same k, whatever state the global generator of
\* numpy was in before each of them.
C15_SeedDeterministic ==
    (GapReturned /\ round = 2) => okg.optimal_k = first.optimal_k

C15_Witness ==
    /\ GapReturned
    /\ round = 2
    /\ okg.np_before # first.np_before
    /\ okg.np_before.seed # okg.random_state
    /\ first.np_before.pos > 0
    /\ okg.optimal_k < okg.k_max

\* The sizes of the two clusters of the attempt that has just ended differ by
\* less than 4.
SizesBalanced == Abs(Cardinality(clusters[1]) - Cardinality(clusters[2])) < 4

\* An attempt has ended and the next has not begun.
AttemptEnded == pc = "predict" /\ times > 0

\* C21: the attempts of Kmeans.predict run one after another, each after a
\* draw of its own; at most resetTimes are made; the first whose final sizes
\* differ by less than 4 is accepted and none is made after it; a call ends
\* by returning the labels of an accepted attempt or, when none was accepted,
\* those of attempt number resetTimes, and does not fail.
C21_RestartPolicy ==
    /\ times <= kmeans.resetTimes
    /\ (times > 0 /\ pc # "draw") => rng >= Min(times, MaxDraws)
    /\ resultGood => (pc \in {"predict", "done"} /\ SizesBalanced)
    /\ (AttemptEnded /\ ~resultGood) => ~SizesBalanced
    /\ (Done("Kmeans.predict") /\ times > 0)
        => /\ result.status = "returned"
           /\ resultGood \/ times = kmeans.resetTimes
           /\ resultGood <=> SizesBalanced
           /\ \A r \in 1..Rows(X) :
                \A j \in 1..k :
                    r \in clusters[j] => result.labels[r] = CanonicalId(centroids, j)

\* An attempt is accepted after one that was not.
C21_Witness ==
    /\ Done("Kmeans.predict")
    /\ result.status = "returned"
    /\ resultGood
    /\ times = 2
    /\ kmeans.resetTimes > 2

\* No attempt is accepted and the last one is returned.
C21_WitnessLast ==
    /\ Done("Kmeans.predict")
    /\ result.status = "returned"
    /\ ~resultGood
    /\ times = resetTimes

PredictReturned ==
    /\ pc = "done"
    /\ entry \in {"Kmeans.predict", "Classify_kmeans"}
    /\ result.status = "returned"

\* C22: when one of the two final centroids has the smaller L2 norm, the
\* labels Kmeans.predict returns are 0 for every member of its cluster and 1
\* for every member of the other cluster, whichever of the two centroids was
\* initialised first.
C22_CanonicalLabeling ==
    PredictReturned
        => \A a, b \in 1..k :
            NormLess(centroids[a], centroids[b])
                => /\ \A r \in clusters[a] : y_pred[r] = 0
                   /\ \A r \in clusters[b] : y_pred[r] = 1

\* The centroid initialised second ends with the smaller norm.
C22_Witness ==
    /\ PredictReturned
    /\ NormLess(centroids[2], centroids[1])
    /\ clusters[1] # {}
    /\ clusters[2] # {}
    /\ \A r \in clusters[2] : y_pred[r] = 0

\* C23: the ids that get_cluster_labels_new gives the two clusters are a
\* permutation of 0 and 1: the two clusters receive two different ids,
\* whatever the final centroids, equal norms included.
C23_RelabelingIsPermutation ==
    (PredictReturned /\ clusters[1] # {} /\ clusters[2] # {})
        => /\ {CanonicalId(centroids, j) : j \in 1..k} = {0, 1}
           /\ \A a \in clusters[1], b \in clusters[2] : y_pred[a] # y_pred[b]

\* C24: a call of Classify_kmeans or GMM on a finite matrix of at least 2
\* rows and fewer than 2 columns reduces it to the columns it has and ends by
\* returning one label per row; it does not fail on the request for 2
\* components.
C24_FewColumnsFallback ==
    (pc = "done" /\ entry \in {"Classify_kmeans", "GMM"}
        /\ Rows(X) >= 2 /\ Cols(X) < n_components /\ ~HasNaN(X))
        => /\ newX # <<>>
           /\ Cols(newX) = Cols(X)
           /\ fit # "failed" =>
                /\ result.status = "returned"
                /\ DOMAIN result.labels = 1..Rows(X)

\* C25: for total_samples >= 0 and a proportions map that is not empty,
\* _calculate_target_counts returns a map with exactly the keys of
\* proportions, no count is negative, and the counts sum to total_samples.
C25_CountsSumToTotal ==
    (Done("_calculate_target_counts") /\ tc.proportions.w # <<>>)
        => /\ result.status = "returned"
           /\ DOMAIN result.labels = DOMAIN tc.proportions.w
           /\ \A c \in DOMAIN result.labels : result.labels[c] >= 0
           /\ SeqSum(result.labels) = tc.total_samples
           /\ tc.diff = 0

\* The monitored quantity got better by more than min_delta at update n:
\* the value passed, against the best value of the updates before it.
ImprovedAt(n) ==
    LET before == updates[n - 1].best_score[1]
        gain   == IF stopper.monitor = "loss" THEN before - updates[n].value
                  ELSE updates[n].value - before
    IN  gain > stopper.min_delta

\* The number of updates up to n that follow the last improving update, or
\* the first update when none improved.
RECURSIVE Streak(_)
Streak(n) ==
    IF n <= 1 THEN 0
    ELSE IF ImprovedAt(n) THEN 0
    ELSE Streak(n - 1) + 1

KnownMonitor == stopper.monitor \in {"loss", "acc"}

\* C26: the first update records its value and gives False; every later one
\* gives True exactly when the number of consecutive updates without an
\* improvement greater than min_delta, counted since the last improving
\* update (or since the first), has reached patience; an improving update
\* puts the count back to 0.
C26_StopsAtPatience ==
    KnownMonitor
        => \A n \in 1..Len(updates) :
            /\ updates[n].out = IF n = 1 THEN "False"
                                ELSE Bool(Streak(n) >= stopper.patience)
            /\ updates[n].counter = Streak(n)
            /\ n = 1 => updates[n].best_score = <<updates[n].value>>

C26_Witness ==
    /\ KnownMonitor
    /\ stopper.patience = MaxPatience
    /\ Len(updates) >= 2
    /\ updates[Len(updates)].out = "True"
    /\ \E n \in 2..(Len(updates) - 1) : ImprovedAt(n)

\* a is at least as good a score as b.
NotWorse(a, b) == IF stopper.monitor = "loss" THEN a <= b ELSE a >= b

\* best_score after update n, against the updates before it.
BestKept(n) ==
    LET now    == updates[n].best_score[1]
        before == updates[n - 1].best_score[1]
    IN  /\ NotWorse(now, before)
        /\ \E i \in 1..n : now = updates[i].value
        /\ now # before => (ImprovedAt(n) /\ updates[n].counter = 0)

\* C30: over any sequence of updates best_score never gets worse (it does
\* not rise with monitor 'loss' nor fall with 'acc'), it is one of the
\* values passed so far, and it changes only on an update whose improvement
\* exceeds min_delta, which puts counter to 0.
C30_BestNeverWorse ==
    KnownMonitor => \A n \in 2..Len(updates) : BestKept(n)

\* C30 as amended: the same for a stopper whose min_delta is not negative.
C30_BestNeverWorse_nonneg ==
    (KnownMonitor /\ stopper.min_delta >= 0)
        => \A n \in 2..Len(updates) : BestKept(n)

C30_Witness ==
    /\ KnownMonitor
    /\ stopper.min_delta > 0
    /\ Len(updates) = MaxUpdates
    /\ \E n \in 2..Len(updates) :
        /\ updates[n].best_score # updates[n - 1].best_score
        /\ updates[n - 1].counter > 0
    /\ \E n \in 2..Len(updates) :
        /\ updates[n].value # updates[n - 1].best_score[1]
        /\ NotWorse(updates[n].value, updates[n - 1].best_score[1])
        /\ updates[n].best_score = updates[n - 1].best_score

\* The re-draw loop of init_random_centroids has an exit: random.sample can
\* give two rows that are not identical.
DrawCanExit ==
    \E a, b \in 1..Rows(newX) : a # b /\ ~SameRows(newX, a, b)

\* C27: Kmeans.predict terminates on every matrix of at least 2 rows, one
\* with all rows identical included: whenever it is in the re-draw loop the
\* loop has an exit, and the work after it stays within resetTimes attempts
\* of at most max_iterations iterations each.
C27_PredictTerminates ==
    (entry = "Kmeans.predict" /\ Rows(X) >= 2)
        => /\ pc = "draw" => DrawCanExit
           /\ times <= kmeans.resetTimes
           /\ iter <= kmeans.max_iterations

\* An assign step of the current attempt has been made.
Assigned == pc = "balance" \/ (pc = "iterate" /\ iter > 0)

C29_TwoComponents ==
    Done("GMM2")
        => /\ fit # "none" => (n_components_gmm = 2 /\ Rows(newX) >= 2)
           /\ fit = "ok" => result = Returned(MajorityRuleVec(y_pred))
           /\ n_components_gmm \in {0, 2}
           /\ (fit = "none" /\ result.status = "returned")
                => \/ Rows(X) < 2
                   \/ argType \in {"ndarray", "list_of_float"}
                   \/ usedPCA /\ PCA_raises(X, n_components)

\* The fit is reached with exactly 2 samples and without the reduction:
\* min(2, N) with N at its least.
C29_Witness ==
    /\ Done("GMM2")
    /\ argType = "list_of_list"
    /\ Rows(X) = 2
    /\ Cols(X) = 1
    /\ fit = "ok"
    /\ n_components_gmm = Min(2, Rows(X))
    /\ Count(result.labels, 1) = 1

====
